---- MODULE Spec2Model ----
(***************************************************************************)
(* Model of engine/keyboard.py: the Keyboard context manager (exclusive    *)
(* ownership of the terminal, cbreak mode, restore on exit), its token     *)
(* buffer (getch / clear) and the escape-sequence decoder of               *)
(* _read_into_buffer.                                                      *)
(*                                                                         *)
(* Bytes and characters are integers (byte values, Unicode code points).   *)
(* A key token is a Python str: a key name of class Keys, or one decoded   *)
(* character.  Both are records here so that they can be compared.         *)
(***************************************************************************)
EXTENDS Integers, Sequences, FiniteSets, TLC

\* ------------------------------------------------------------------------
\* Bounds of the model
\* ------------------------------------------------------------------------

\* most times the owner slot is taken in one behaviour
MaxAcquires == 2

\* longest typed key sequence given to the decoder
MaxKeys == 3

\* ------------------------------------------------------------------------
\* Tokens
\* ------------------------------------------------------------------------

Key(n) == [kind |-> "named", name |-> n, cp |-> 0]

Ch(c) == [kind |-> "char", name |-> "", cp |-> c]

NoKey == [kind |-> "none", name |-> "", cp |-> 0]

PAGE_UP == Key("KEY_PAGE_UP")
PAGE_DOWN == Key("KEY_PAGE_DOWN")
UP == Key("KEY_UP")
DOWN == Key("KEY_DOWN")
RIGHT == Key("KEY_RIGHT")
LEFT == Key("KEY_LEFT")
ESC == Key("KEY_ESC")
ENTER == Key("KEY_ENTER")
SPACE == Key("KEY_SPACE")
BACKSPACE == Key("KEY_BACKSPACE")
TAB == Key("KEY_TAB")
INSERT == Key("KEY_INSERT")
DELETE == Key("KEY_DELETE")
END == Key("KEY_END")
HOME == Key("KEY_HOME")
F1 == Key("KEY_F1")
F2 == Key("KEY_F2")
F3 == Key("KEY_F3")
F4 == Key("KEY_F4")
F5 == Key("KEY_F5")
F6 == Key("KEY_F6")
F7 == Key("KEY_F7")
F8 == Key("KEY_F8")
F9 == Key("KEY_F9")
F10 == Key("KEY_F10")
F11 == Key("KEY_F11")
F12 == Key("KEY_F12")

KEYS_TABLE ==
    (8 :> BACKSPACE) @@ (9 :> TAB) @@ (10 :> ENTER) @@ (27 :> ESC)
    @@ (32 :> SPACE) @@ (127 :> BACKSPACE)

SS3_MAPPING ==
    (80 :> F1) @@ (81 :> F2) @@ (82 :> F3) @@ (83 :> F4)

\* the keys of CSI_TABLE are strings: sequences of code points here
CSI_TABLE_swapped ==
    (<<49>> :> HOME) @@ (<<50>> :> INSERT) @@ (<<51>> :> DELETE)
    @@ (<<52>> :> END) @@ (<<53>> :> PAGE_UP) @@ (<<54>> :> PAGE_DOWN)
    @@ (<<49, 53>> :> F5) @@ (<<49, 55>> :> F6) @@ (<<49, 56>> :> F7)
    @@ (<<49, 57>> :> F8) @@ (<<50, 48>> :> F9) @@ (<<50, 49>> :> F10)
    @@ (<<50, 51>> :> F11) @@ (<<50, 52>> :> F12)
    @@ (<<65>> :> UP) @@ (<<66>> :> DOWN) @@ (<<67>> :> LEFT)
    @@ (<<68>> :> RIGHT) @@ (<<70>> :> END) @@ (<<72>> :> HOME)
    @@ (<<90>> :> TAB)

CSI_TABLE ==
    (<<49>> :> HOME) @@ (<<50>> :> INSERT) @@ (<<51>> :> DELETE)
    @@ (<<52>> :> END) @@ (<<53>> :> PAGE_UP) @@ (<<54>> :> PAGE_DOWN)
    @@ (<<49, 53>> :> F5) @@ (<<49, 55>> :> F6) @@ (<<49, 56>> :> F7)
    @@ (<<49, 57>> :> F8) @@ (<<50, 48>> :> F9) @@ (<<50, 49>> :> F10)
    @@ (<<50, 51>> :> F11) @@ (<<50, 52>> :> F12)
    @@ (<<65>> :> UP) @@ (<<66>> :> DOWN) @@ (<<67>> :> RIGHT)
    @@ (<<68>> :> LEFT) @@ (<<70>> :> END) @@ (<<72>> :> HOME)
    @@ (<<90>> :> TAB)

CSI == <<27, 91>>

SS3 == <<27, 79>>

EXTENDED_ANSI_SEQ == <<27, 91, 49, 59>>

\* ------------------------------------------------------------------------
\* Python str / bytes primitives used by _read_into_buffer
\* ------------------------------------------------------------------------

\* data.startswith(p)
StartsWith(s, p) == Len(s) >= Len(p) /\ SubSeq(s, 1, Len(p)) = p

\* data[n:]
Drop(s, n) == SubSeq(s, n + 1, Len(s))

\* c in data
Contains(s, c) == \E i \in 1..Len(s) : s[i] = c

\* data.index(c) + 1 (positions are 1-based here)
IndexOf(s, c) == CHOOSE i \in 1..Len(s) : s[i] = c /\ \A j \in 1..(i - 1) : s[j] # c

\* code.split(c)[0]
SplitFirst(code, c) ==
    IF Contains(code, c) THEN SubSeq(code, 1, IndexOf(code, c) - 1) ELSE code

IsCont(b) == b \in 128..191

\* bytes.decode('utf-8'), strict: the code points, or ok = FALSE for
\* UnicodeDecodeError
RECURSIVE Utf8(_, _)
Utf8(bs, acc) ==
    IF bs = <<>> THEN [ok |-> TRUE, cps |-> acc]
    ELSE LET b == Head(bs)
             n == Len(bs)
             bad == [ok |-> FALSE, cps |-> <<>>]
         IN  IF b < 128 THEN Utf8(Tail(bs), Append(acc, b))
             ELSE IF b \in 194..223 THEN
                 IF n >= 2 /\ IsCont(bs[2])
                 THEN Utf8(Drop(bs, 2), Append(acc, (b - 192) * 64 + (bs[2] - 128)))
                 ELSE bad
             ELSE IF b \in 224..239 THEN
                 IF /\ n >= 3
                    /\ IsCont(bs[2])
                    /\ IsCont(bs[3])
                    /\ (b = 224 => bs[2] >= 160)
                    /\ (b = 237 => bs[2] <= 159)
                 THEN Utf8(Drop(bs, 3),
                           Append(acc, (b - 224) * 4096 + (bs[2] - 128) * 64 + (bs[3] - 128)))
                 ELSE bad
             ELSE IF b \in 240..244 THEN
                 IF /\ n >= 4
                    /\ IsCont(bs[2])
                    /\ IsCont(bs[3])
                    /\ IsCont(bs[4])
                    /\ (b = 240 => bs[2] >= 144)
                    /\ (b = 244 => bs[2] <= 143)
                 THEN Utf8(Drop(bs, 4),
                           Append(acc, (b - 240) * 262144 + (bs[2] - 128) * 4096
                                       + (bs[3] - 128) * 64 + (bs[4] - 128)))
                 ELSE bad
             ELSE bad

Utf8Decode(bs) == Utf8(bs, <<>>)

\* ------------------------------------------------------------------------
\* The decoder: the body of the "while data" loop of _read_into_buffer
\* ------------------------------------------------------------------------

Step(err, key, rest) == [err |-> err, key |-> key, rest |-> rest]

\* Keys.CSI_TABLE[code], then the append of the key
CsiLookup(code, rest) ==
    IF code \in DOMAIN CSI_TABLE
    THEN Step("ok", CSI_TABLE[code], rest)
    ELSE Step("KeyError", NoKey, rest)

\* the SS3 branch
DecodeSS3(data) ==
    IF Len(data) < 3 THEN Step("IndexError", NoKey, data)
    ELSE IF data[3] \notin DOMAIN SS3_MAPPING THEN Step("KeyError", NoKey, data)
    ELSE Step("ok", SS3_MAPPING[data[3]], Drop(data, 3))

\* the EXTENDED_ANSI_SEQ branch
DecodeExtended(data) ==
    IF Len(data) < 6 THEN Step("AssertionError", NoKey, data)
    ELSE IF <<data[6]>> \notin DOMAIN CSI_TABLE THEN Step("KeyError", NoKey, data)
    ELSE Step("ok", CSI_TABLE[<<data[6]>>], Drop(data, 6))

\* the CSI branch
DecodeCSI(data) ==
    IF Len(data) < 3 THEN Step("AssertionError", NoKey, data)
    ELSE IF data[3] \in 48..57 THEN
        IF ~Contains(data, 126) THEN Step("AssertionError", NoKey, data)
        ELSE LET pos == IndexOf(data, 126)
             IN  CsiLookup(SplitFirst(SubSeq(data, 3, pos - 1), 59), Drop(data, pos))
    ELSE CsiLookup(<<data[3]>>, Drop(data, 3))

\* the "Normal key" branch, losing the byte after the key
DecodeNormal_skip(data) ==
    Step("ok",
         IF data[1] \in DOMAIN KEYS_TABLE THEN KEYS_TABLE[data[1]] ELSE Ch(data[1]),
         Drop(data, 2))

\* the "Normal key" branch
DecodeNormal(data) ==
    Step("ok",
         IF data[1] \in DOMAIN KEYS_TABLE THEN KEYS_TABLE[data[1]] ELSE Ch(data[1]),
         Drop(data, 1))

\* one iteration of the loop, with an ESC that ends the data taken for the
\* start of a sequence still to come
DecodeStep_pending(data) ==
    IF data = <<27>> THEN Step("AssertionError", NoKey, data)
    ELSE IF StartsWith(data, SS3) THEN DecodeSS3(data)
    ELSE IF StartsWith(data, EXTENDED_ANSI_SEQ) THEN DecodeExtended(data)
    ELSE IF StartsWith(data, CSI) THEN DecodeCSI(data)
    ELSE DecodeNormal(data)

\* one iteration of the loop: the key appended and the data left, or the
\* exception raised
DecodeStep(data) ==
    IF StartsWith(data, SS3) THEN DecodeSS3(data)
    ELSE IF StartsWith(data, EXTENDED_ANSI_SEQ) THEN DecodeExtended(data)
    ELSE IF StartsWith(data, CSI) THEN DecodeCSI(data)
    ELSE DecodeNormal(data)

\* the loop: the tokens appended to the buffer, in order, and the exception
\* that ended it ("ok" when the data was consumed to the end)
RECURSIVE DecodeLoop(_, _)
DecodeLoop(data, acc) ==
    IF data = <<>> THEN [err |-> "ok", toks |-> acc]
    ELSE LET s == DecodeStep(data)
         IN  IF s.err # "ok" THEN [err |-> s.err, toks |-> acc]
             ELSE DecodeLoop(s.rest, Append(acc, s.key))

\* decode('utf-8') followed by the loop
Decode(bytes) ==
    LET u == Utf8Decode(bytes)
    IN  IF ~u.ok THEN [err |-> "UnicodeDecodeError", toks |-> <<>>]
        ELSE DecodeLoop(u.cps, <<>>)

\* ------------------------------------------------------------------------
\* State
\* ------------------------------------------------------------------------

Keyboards == {"k1", "k2"}

None == "None"

\* self._original_settings is <<attrs>> while the attribute exists, NoAttr
\* while it does not
NoAttr == <<>>

\* the terminal attributes termios.tcgetattr returns, reduced to the two
\* local flags tty.setcbreak changes
TermAttrs == [echo : BOOLEAN, icanon : BOOLEAN]

\* attributes the terminal may have when the program starts
InitialAttrs == {[echo |-> TRUE, icanon |-> TRUE], [echo |-> FALSE, icanon |-> TRUE]}

\* os.read(fd, 1024)
READ_SIZE == 1024

\* most bytes of raw input arriving in one behaviour
MaxBytes == 4

\* raw input the terminal delivers at once: 'a', UP, a truncated SS3
\* sequence, a truncated UTF-8 character
Runs == {<<97>>, <<27, 91, 65>>, <<27, 79>>, <<195>>}

VARIABLES
    owner,      \* Keyboard._owner
    settings,   \* self._original_settings of each Keyboard
    term,       \* the attributes of the terminal device
    stdin,      \* raw bytes waiting in the terminal input queue
    buffer,     \* self._buffer of each Keyboard
    blocked,    \* the Keyboard whose getch(True) is suspended in select
    ret,        \* the last operation and its outcome
    pc,         \* position of the __main__ program
    term0,      \* history: the terminal attributes at program start
    typed,      \* history: the keystrokes behind the bytes given to the decoder
    enqueued,   \* history: tokens appended to each buffer since its last clear
    returned,   \* history: tokens returned by getch since the last clear
    acquires,   \* history: number of times the owner slot was taken
    restores,   \* history: number of tcsetattr calls made by __exit__
    arrived,    \* history: number of raw bytes that arrived
    eof,        \* the terminal input is at end of file: select reports it
                \* ready and os.read returns no bytes
    stack,      \* GameLoop.stack
    notes       \* the calls the last GameLoop operation made on activities

vars == <<owner, settings, term, stdin, buffer, blocked, ret, pc, term0, typed,
          enqueued, returned, acquires, restores, arrived, eof, stack, notes>>

\* no call of the program is suspended in select or caught in the read loop
Idle == blocked = None /\ ret.outcome # "spinning"

Ret(op, k, block, outcome, val) ==
    [op |-> op, k |-> k, block |-> block, outcome |-> outcome, val |-> val]

\* ------------------------------------------------------------------------
\* Keyboard.__enter__
\* ------------------------------------------------------------------------

\* assert Keyboard._owner is None, without the check
EnterAllowed_any(k) == TRUE

\* assert Keyboard._owner is None, letting the owner in again
EnterAllowed_reentrant(k) == owner = None \/ owner = k

\* assert Keyboard._owner is None
EnterAllowed(k) == owner = None

\* tty.setcbreak: ECHO and ICANON cleared
Setcbreak(attrs) == [attrs EXCEPT !.echo = FALSE, !.icanon = FALSE]

\* __enter__ of Keyboard k; how names the call that fails in the terminal
\* layer, if any ("ok", "tcgetattr", "setcbreak")
\* the token buffers after __enter__ of k, were it to start k with a new
\* deque
BufferAfterEnter_fresh(k) == [buffer EXCEPT ![k] = <<>>]

\* the token buffers after __enter__ of k: self._buffer is created in
\* __init__ and __enter__ does not touch it
BufferAfterEnter(k) == buffer

EnterOp(k, how) ==
    /\ Idle
    /\ buffer' = BufferAfterEnter(k)
    /\ UNCHANGED <<blocked, term0, typed, enqueued, returned,
                   restores, arrived>>
    /\ IF ~EnterAllowed(k)
       THEN /\ ret' = Ret("enter", k, FALSE, "AssertionError", NoKey)
            /\ UNCHANGED <<owner, settings, term, stdin, acquires>>
       ELSE /\ acquires < MaxAcquires
            /\ acquires' = acquires + 1
            /\ owner' = k
            /\ CASE how = "tcgetattr" ->
                      /\ ret' = Ret("enter", k, FALSE, "termios.error", NoKey)
                      /\ UNCHANGED <<settings, term, stdin>>
                 [] how = "setcbreak" ->
                      /\ settings' = [settings EXCEPT ![k] = <<term>>]
                      /\ ret' = Ret("enter", k, FALSE, "termios.error", NoKey)
                      /\ UNCHANGED <<term, stdin>>
                 [] OTHER ->
                      /\ settings' = [settings EXCEPT ![k] = <<term>>]
                      /\ term' = Setcbreak(term)
                      /\ stdin' = <<>>     \* tcsetattr(TCSAFLUSH) discards pending input
                      /\ ret' = Ret("enter", k, FALSE, "ok", NoKey)

\* ------------------------------------------------------------------------
\* Keyboard.__exit__
\* ------------------------------------------------------------------------

\* assert Keyboard._owner == self, without the check
ExitAllowed_any(k) == TRUE

\* assert Keyboard._owner == self
ExitAllowed(k) == owner = k

\* the attributes handed to tcsetattr, with cbreak left on
Restored_cbreak(k) == Setcbreak(settings[k][1])

\* the attributes handed to tcsetattr: self._original_settings
Restored(k) == settings[k][1]

\* Keyboard._owner = None, forgotten
OwnerAfterExit_kept(k) == k

\* Keyboard._owner = None
OwnerAfterExit(k) == None

ExitOp(k) ==
    /\ Idle
    /\ UNCHANGED <<stdin, buffer, blocked, term0, typed, enqueued,
                   returned, acquires, arrived>>
    /\ IF ~ExitAllowed(k)
       THEN /\ ret' = Ret("exit", k, FALSE, "AssertionError", NoKey)
            /\ UNCHANGED <<owner, settings, term, restores>>
       ELSE IF settings[k] = NoAttr
       THEN /\ ret' = Ret("exit", k, FALSE, "AttributeError", NoKey)
            /\ UNCHANGED <<owner, settings, term, restores>>
       ELSE /\ term' = Restored(k)
            /\ restores' = restores + 1
            /\ settings' = [settings EXCEPT ![k] = NoAttr]
            /\ owner' = OwnerAfterExit(k)
            /\ ret' = Ret("exit", k, FALSE, "ok", NoKey)

\* ------------------------------------------------------------------------
\* Keyboard._has_data, Keyboard._read_into_buffer
\* ------------------------------------------------------------------------

\* select with timeout 0 (wait = False): is input ready now; at end of file
\* select reports the stream readable
HasData == stdin # <<>> \/ eof

Min(a, b) == IF a < b THEN a ELSE b

\* the read loop: one os.read, repeated while _has_data(False); returns all
\* the bytes read
RECURSIVE ReadLoop(_, _)
ReadLoop(pending, data) ==
    LET n == Min(Len(pending), READ_SIZE)
        got == data \o SubSeq(pending, 1, n)
        rest == Drop(pending, n)
    IN  IF rest = <<>> THEN got ELSE ReadLoop(rest, got)

\* the read loop never ends: at end of file os.read returns b'' and
\* _has_data(False) stays True
ReadSpins == eof

\* the outcome of _read_into_buffer on the pending input
ReadResult == Decode(ReadLoop(stdin, <<>>))

\* deque.popleft, taking from the wrong end
PopLeft_right(q) == [val |-> q[Len(q)], rest |-> SubSeq(q, 1, Len(q) - 1)]

\* deque.popleft
PopLeft(q) == [val |-> Head(q), rest |-> Tail(q)]

\* what _read_into_buffer does to the state, for Keyboard k
ReadEffect(k) ==
    /\ stdin' = <<>>
    /\ enqueued' = [enqueued EXCEPT ![k] = @ \o ReadResult.toks]

\* ------------------------------------------------------------------------
\* Keyboard.getch
\* ------------------------------------------------------------------------

\* _has_data(block) returning False: nothing ready and the call does not wait
NotReady_always(block) == ~HasData

\* _has_data(block) returning False: nothing ready and the call does not wait
NotReady(block) == ~HasData /\ ~block

\* the part of getch after _has_data returned True: read, decode, pop
GetchRead(k, block) ==
    LET r == ReadResult
        all == buffer[k] \o r.toks
    IN  IF ReadSpins
        THEN /\ stdin' = <<>>
             /\ ret' = Ret("getch", k, block, "spinning", NoKey)
             /\ UNCHANGED <<buffer, enqueued, returned>>
        ELSE
        /\ ReadEffect(k)
        /\ IF r.err # "ok"
           THEN /\ buffer' = [buffer EXCEPT ![k] = all]
                /\ ret' = Ret("getch", k, block, r.err, NoKey)
                /\ UNCHANGED returned
           ELSE IF all = <<>>
           THEN /\ buffer' = buffer
                /\ ret' = Ret("getch", k, block, "IndexError", NoKey)
                /\ UNCHANGED returned
           ELSE /\ buffer' = [buffer EXCEPT ![k] = PopLeft(all).rest]
                /\ ret' = Ret("getch", k, block, "ok", PopLeft(all).val)
                /\ returned' = [returned EXCEPT ![k] = Append(@, PopLeft(all).val)]

GetchOp(k, block) ==
    /\ Idle
    /\ UNCHANGED <<owner, settings, term, term0, typed, acquires, restores, arrived>>
    /\ IF owner # k
       THEN /\ ret' = Ret("getch", k, block, "AssertionError", NoKey)
            /\ UNCHANGED <<stdin, buffer, blocked, enqueued, returned>>
       ELSE IF Len(buffer[k]) > 0
       THEN /\ buffer' = [buffer EXCEPT ![k] = PopLeft(buffer[k]).rest]
            /\ ret' = Ret("getch", k, block, "ok", PopLeft(buffer[k]).val)
            /\ returned' = [returned EXCEPT ![k] = Append(@, PopLeft(buffer[k]).val)]
            /\ UNCHANGED <<stdin, blocked, enqueued>>
       ELSE IF NotReady(block)
       THEN /\ ret' = Ret("getch", k, block, "ok", NoKey)
            /\ UNCHANGED <<stdin, buffer, blocked, enqueued, returned>>
       ELSE IF ~HasData
       THEN \* select(..., None) suspends the caller until input arrives
            /\ blocked' = k
            /\ ret' = Ret("getch", k, block, "waiting", NoKey)
            /\ UNCHANGED <<stdin, buffer, enqueued, returned>>
       ELSE /\ GetchRead(k, block)
            /\ UNCHANGED blocked

\* select returns in a suspended getch(True) once input is ready
WakeOp ==
    /\ blocked # None
    /\ HasData
    /\ blocked' = None
    /\ GetchRead(blocked, TRUE)
    /\ UNCHANGED <<owner, settings, term, term0, typed, acquires, restores, arrived>>

\* ------------------------------------------------------------------------
\* Keyboard.clear
\* ------------------------------------------------------------------------

ClearOp(k) ==
    /\ Idle
    /\ UNCHANGED <<owner, settings, term, blocked, term0, typed, acquires, restores,
                   arrived>>
    /\ IF HasData /\ ReadSpins
       THEN /\ stdin' = <<>>
            /\ ret' = Ret("clear", k, FALSE, "spinning", NoKey)
            /\ UNCHANGED <<buffer, enqueued, returned>>
       ELSE IF HasData
       THEN /\ stdin' = <<>>
            /\ IF ReadResult.err # "ok"
               THEN /\ buffer' = [buffer EXCEPT ![k] = @ \o ReadResult.toks]
                    /\ enqueued' = [enqueued EXCEPT ![k] = @ \o ReadResult.toks]
                    /\ ret' = Ret("clear", k, FALSE, ReadResult.err, NoKey)
                    /\ UNCHANGED returned
               ELSE /\ buffer' = [buffer EXCEPT ![k] = <<>>]
                    /\ enqueued' = [enqueued EXCEPT ![k] = <<>>]
                    /\ returned' = [returned EXCEPT ![k] = <<>>]
                    /\ ret' = Ret("clear", k, FALSE, "ok", NoKey)
       ELSE /\ buffer' = [buffer EXCEPT ![k] = <<>>]
            /\ enqueued' = [enqueued EXCEPT ![k] = <<>>]
            /\ returned' = [returned EXCEPT ![k] = <<>>]
            /\ ret' = Ret("clear", k, FALSE, "ok", NoKey)
            /\ UNCHANGED stdin

\* ------------------------------------------------------------------------
\* The terminal: raw input arriving
\* ------------------------------------------------------------------------

ArriveOp(run) ==
    /\ ~eof
    /\ ret.outcome # "spinning"
    /\ arrived + Len(run) <= MaxBytes
    /\ arrived' = arrived + Len(run)
    /\ stdin' = stdin \o run
    /\ ret' = Ret("arrive", None, FALSE, "ok", NoKey)
    /\ UNCHANGED <<owner, settings, term, buffer, blocked, term0, typed,
                   enqueued, returned, acquires, restores>>

\* ------------------------------------------------------------------------
\* Specification of the Keyboard class under arbitrary calls
\* ------------------------------------------------------------------------

InitCommon ==
    /\ owner = None
    /\ settings = [k \in Keyboards |-> NoAttr]
    /\ term \in InitialAttrs
    /\ term0 = term
    /\ stdin = <<>>
    /\ buffer = [k \in Keyboards |-> <<>>]
    /\ blocked = None
    /\ ret = Ret("init", None, FALSE, "ok", NoKey)
    /\ typed = <<>>
    /\ enqueued = [k \in Keyboards |-> <<>>]
    /\ returned = [k \in Keyboards |-> <<>>]
    /\ acquires = 0
    /\ restores = 0
    /\ arrived = 0
    /\ eof = FALSE
    /\ stack = <<>>
    /\ notes = <<>>

\* the terminal input reaches end of file (hang-up, closed pipe)
CloseOp ==
    /\ ~eof
    /\ ret.outcome # "spinning"
    /\ eof' = TRUE
    /\ ret' = Ret("close", None, FALSE, "ok", NoKey)
    /\ UNCHANGED <<owner, settings, term, stdin, buffer, blocked, term0, typed,
                   enqueued, returned, acquires, restores, arrived>>

Init == InitCommon /\ pc = "free"

Enter == \E k \in Keyboards, how \in {"ok", "tcgetattr", "setcbreak"} :
             EnterOp(k, how) /\ UNCHANGED <<pc, eof, stack, notes>>

Exit == \E k \in Keyboards : ExitOp(k) /\ UNCHANGED <<pc, eof, stack, notes>>

Getch == \E k \in Keyboards, block \in BOOLEAN :
             GetchOp(k, block) /\ UNCHANGED <<pc, eof, stack, notes>>

Wake == WakeOp /\ UNCHANGED <<pc, eof, stack, notes>>

Clear == \E k \in Keyboards : ClearOp(k) /\ UNCHANGED <<pc, eof, stack, notes>>

Arrive == \E run \in Runs : ArriveOp(run) /\ UNCHANGED <<pc, eof, stack, notes>>

Close == CloseOp /\ UNCHANGED <<pc, stack, notes>>

Next == Enter \/ Exit \/ Getch \/ Wake \/ Clear \/ Arrive \/ Close

Spec == Init /\ [][Next]_vars

TypeOK ==
    /\ owner \in Keyboards \cup {None}
    /\ blocked \in Keyboards \cup {None}
    /\ term \in TermAttrs
    /\ \A k \in Keyboards : settings[k] \in {<<a>> : a \in TermAttrs} \cup {NoAttr}

\* ------------------------------------------------------------------------
\* The __main__ program: with Keyboard() as keyboard, getch(True) until ESC
\* ------------------------------------------------------------------------

\* the Keyboard created by __main__
MainKb == "k1"

\* where the program goes after a getch step
AfterGetch(r) ==
    IF r.outcome = "waiting" THEN "getch"
    ELSE IF r.outcome = "spinning" THEN "getch"
    ELSE IF r.outcome # "ok" THEN "unwind"
    ELSE IF r.val = ESC THEN "leave"
    ELSE "getch"

InitScoped == InitCommon /\ pc = "with"

\* the with statement calls __enter__; the body runs only if it returns
WithEnter ==
    /\ pc = "with"
    /\ \E how \in {"ok", "tcgetattr", "setcbreak"} : EnterOp(MainKb, how)
    /\ pc' = IF ret'.outcome = "ok" THEN "getch" ELSE "enter_raised"
    /\ UNCHANGED <<eof, stack, notes>>

BodyGetch ==
    /\ pc = "getch"
    /\ GetchOp(MainKb, TRUE)
    /\ pc' = AfterGetch(ret')
    /\ UNCHANGED <<eof, stack, notes>>

BodyWake ==
    /\ pc = "getch"
    /\ WakeOp
    /\ pc' = AfterGetch(ret')
    /\ UNCHANGED <<eof, stack, notes>>

\* the with statement calls __exit__ when the body is left, by break or by
\* an exception
WithExit ==
    /\ pc \in {"leave", "unwind"}
    /\ ExitOp(MainKb)
    /\ pc' = IF pc = "leave" THEN "done" ELSE "raised"
    /\ UNCHANGED <<eof, stack, notes>>

\* __exit__ called once more on the same Keyboard after the with statement
ReleaseAgain ==
    /\ pc \in {"done", "raised"}
    /\ ExitOp(MainKb)
    /\ UNCHANGED <<pc, eof, stack, notes>>

ArriveScoped ==
    \E run \in Runs \cup {<<27>>} : ArriveOp(run) /\ UNCHANGED <<pc, eof, stack, notes>>

NextScoped == WithEnter \/ BodyGetch \/ BodyWake \/ WithExit \/ ReleaseAgain \/ ArriveScoped

SpecScoped == InitScoped /\ [][NextScoped]_vars

\* ------------------------------------------------------------------------
\* The decoder applied to typed keys
\* ------------------------------------------------------------------------

\* a keystroke: the bytes the terminal sends and the key it stands for
Stroke(enc, key) == [enc |-> enc, key |-> key]

\* the encodings of the named keys
CanonicalStrokes ==
    { Stroke(<<8>>, BACKSPACE), Stroke(<<127>>, BACKSPACE), Stroke(<<9>>, TAB),
      Stroke(<<10>>, ENTER), Stroke(<<27>>, ESC), Stroke(<<32>>, SPACE),
      Stroke(<<27, 79, 80>>, F1), Stroke(<<27, 79, 81>>, F2),
      Stroke(<<27, 79, 82>>, F3), Stroke(<<27, 79, 83>>, F4),
      Stroke(<<27, 91, 65>>, UP), Stroke(<<27, 91, 66>>, DOWN),
      Stroke(<<27, 91, 67>>, RIGHT), Stroke(<<27, 91, 68>>, LEFT),
      Stroke(<<27, 91, 70>>, END), Stroke(<<27, 91, 72>>, HOME),
      Stroke(<<27, 91, 90>>, TAB),
      Stroke(<<27, 91, 49, 126>>, HOME), Stroke(<<27, 91, 50, 126>>, INSERT),
      Stroke(<<27, 91, 51, 126>>, DELETE), Stroke(<<27, 91, 52, 126>>, END),
      Stroke(<<27, 91, 53, 126>>, PAGE_UP), Stroke(<<27, 91, 54, 126>>, PAGE_DOWN),
      Stroke(<<27, 91, 49, 53, 126>>, F5), Stroke(<<27, 91, 49, 55, 126>>, F6),
      Stroke(<<27, 91, 49, 56, 126>>, F7), Stroke(<<27, 91, 49, 57, 126>>, F8),
      Stroke(<<27, 91, 50, 48, 126>>, F9), Stroke(<<27, 91, 50, 49, 126>>, F10),
      Stroke(<<27, 91, 50, 51, 126>>, F11), Stroke(<<27, 91, 50, 52, 126>>, F12) }

NamedKeys ==
    { PAGE_UP, PAGE_DOWN, UP, DOWN, LEFT, RIGHT, ESC, ENTER, SPACE, BACKSPACE, TAB,
      INSERT, DELETE, END, HOME, F1, F2, F3, F4, F5, F6, F7, F8, F9, F10, F11, F12 }

\* the UTF-8 bytes the terminal sends for a character
Utf8Encode(c) ==
    IF c < 128 THEN <<c>>
    ELSE IF c < 2048 THEN <<192 + (c \div 64), 128 + (c % 64)>>
    ELSE <<224 + (c \div 4096), 128 + ((c \div 64) % 64), 128 + (c % 64)>>

CharStroke(c) == Stroke(Utf8Encode(c), Ch(c))

\* the keys typed in sequences: ESC, UP, F1, F5, HOME, and the characters
\* 'a', 'O', '[', '~', e-acute, the euro sign
SeqStrokes ==
    { Stroke(<<27>>, ESC), Stroke(<<27, 91, 65>>, UP), Stroke(<<27, 79, 80>>, F1),
      Stroke(<<27, 91, 49, 53, 126>>, F5), Stroke(<<27, 91, 49, 126>>, HOME),
      CharStroke(97), CharStroke(79), CharStroke(91), CharStroke(126),
      CharStroke(233), CharStroke(8364) }

RECURSIVE SeqsUpTo(_, _)
SeqsUpTo(n, S) ==
    IF n = 0 THEN {<<>>}
    ELSE LET shorter == SeqsUpTo(n - 1, S)
         IN  shorter \cup {Append(q, x) : q \in shorter, x \in S}

TypedInputs ==
    {<<s>> : s \in CanonicalStrokes} \cup (SeqsUpTo(MaxKeys, SeqStrokes) \ {<<>>})

RECURSIVE EncodeAll(_)
EncodeAll(ks) == IF ks = <<>> THEN <<>> ELSE Head(ks).enc \o EncodeAll(Tail(ks))

RECURSIVE KeysOf(_)
KeysOf(ks) == IF ks = <<>> THEN <<>> ELSE <<Head(ks).key>> \o KeysOf(Tail(ks))

\* _read_into_buffer called on its own, for Keyboard k
ReadOp(k) ==
    /\ HasData
    /\ IF ReadSpins
       THEN /\ stdin' = <<>>
            /\ ret' = Ret("read", k, FALSE, "spinning", NoKey)
            /\ UNCHANGED <<buffer, enqueued>>
       ELSE /\ ReadEffect(k)
            /\ buffer' = [buffer EXCEPT ![k] = @ \o ReadResult.toks]
            /\ ret' = Ret("read", k, FALSE, ReadResult.err, NoKey)
    /\ UNCHANGED <<owner, settings, term, blocked, term0, typed, returned, acquires,
                   restores, arrived>>

\* MainKb has acquired the terminal and the typed keys are waiting
InitDecode ==
    /\ owner = MainKb
    /\ term0 \in InitialAttrs
    /\ settings = [k \in Keyboards |-> IF k = MainKb THEN <<term0>> ELSE NoAttr]
    /\ term = Setcbreak(term0)
    /\ typed \in TypedInputs
    /\ stdin = EncodeAll(typed)
    /\ arrived = Len(stdin)
    /\ buffer = [k \in Keyboards |-> <<>>]
    /\ blocked = None
    /\ ret = Ret("arrive", None, FALSE, "ok", NoKey)
    /\ enqueued = [k \in Keyboards |-> <<>>]
    /\ returned = [k \in Keyboards |-> <<>>]
    /\ acquires = 1
    /\ restores = 0
    /\ eof = FALSE
    /\ stack = <<>>
    /\ notes = <<>>
    /\ pc = "decode"

DecodeRead ==
    /\ pc = "decode"
    /\ ReadOp(MainKb)
    /\ pc' = "decoded"
    /\ UNCHANGED <<eof, stack, notes>>

NextDecode == DecodeRead

SpecDecode == InitDecode /\ [][NextDecode]_vars

\* ------------------------------------------------------------------------
\* The decoder applied to runs that hold sequences outside the tables
\* ------------------------------------------------------------------------

\* most keys typed before and after such a sequence in one run
MaxAround == 1

\* the keys typed around it: 'a', UP, HOME
RawKeys == { CharStroke(97), Stroke(<<27, 91, 65>>, UP), Stroke(<<27, 91, 49, 126>>, HOME) }

\* recognized prefix, terminator or code without a table entry:
\* ESC [ 9 9 ~, ESC [ E, ESC O T, ESC [ 1 ; 5 E
UnknownPieces ==
    { Stroke(<<27, 91, 57, 57, 126>>, NoKey), Stroke(<<27, 91, 69>>, NoKey),
      Stroke(<<27, 79, 84>>, NoKey), Stroke(<<27, 91, 49, 59, 53, 69>>, NoKey) }

\* recognized prefix cut short at the end of the run: ESC O, ESC [,
\* ESC [ 1 ;, ESC [ 1 ; 5, ESC [ 1 5
TruncatedPieces ==
    { Stroke(<<27, 79>>, NoKey), Stroke(<<27, 91>>, NoKey),
      Stroke(<<27, 91, 49, 59>>, NoKey), Stroke(<<27, 91, 49, 59, 53>>, NoKey),
      Stroke(<<27, 91, 49, 53>>, NoKey) }

\* the CSI-letter table of the specification
CsiLetterKey ==
    (65 :> UP) @@ (66 :> DOWN) @@ (67 :> RIGHT) @@ (68 :> LEFT) @@ (70 :> END)
    @@ (72 :> HOME) @@ (90 :> TAB)

\* ESC [ 1 ; m t for the modifiers '2', '5' and the terminators A..Z of the
\* letter table, 'E', and the digits '1'..'6'
ExtendedPieces ==
    { Stroke(<<27, 91, 49, 59, m, t>>,
             IF t \in DOMAIN CsiLetterKey THEN CsiLetterKey[t] ELSE NoKey) :
        m \in {50, 53}, t \in DOMAIN CsiLetterKey \cup {69} \cup (49..54) }

\* ESC [ ... ~ in the numeric form (ESC [ 2 ~, ESC [ 2 ; 5 ~, ESC [ 1 5 ; 2 ~)
\* and outside it (ESC [ 2 ; a ~, ESC [ 2 a ~, and the unterminated ESC [ 2 ;
\* and ESC [ 2)
NumericPieces ==
    { Stroke(<<27, 91, 50, 126>>, INSERT), Stroke(<<27, 91, 50, 59, 53, 126>>, INSERT),
      Stroke(<<27, 91, 49, 53, 59, 50, 126>>, F5),
      Stroke(<<27, 91, 50, 59, 97, 126>>, NoKey), Stroke(<<27, 91, 50, 97, 126>>, NoKey),
      Stroke(<<27, 91, 50, 59>>, NoKey), Stroke(<<27, 91, 50>>, NoKey) }

RawPieces == UnknownPieces \cup TruncatedPieces \cup ExtendedPieces \cup NumericPieces

RawInputs ==
    { pre \o <<p>> \o post :
        pre \in SeqsUpTo(MaxAround, RawKeys), p \in RawPieces,
        post \in SeqsUpTo(MaxAround, RawKeys) }

\* MainKb has acquired the terminal and the run is waiting
InitRaw ==
    /\ owner = MainKb
    /\ term0 \in InitialAttrs
    /\ settings = [k \in Keyboards |-> IF k = MainKb THEN <<term0>> ELSE NoAttr]
    /\ term = Setcbreak(term0)
    /\ typed \in RawInputs
    /\ stdin = EncodeAll(typed)
    /\ arrived = Len(stdin)
    /\ buffer = [k \in Keyboards |-> <<>>]
    /\ blocked = None
    /\ ret = Ret("arrive", None, FALSE, "ok", NoKey)
    /\ enqueued = [k \in Keyboards |-> <<>>]
    /\ returned = [k \in Keyboards |-> <<>>]
    /\ acquires = 1
    /\ restores = 0
    /\ eof = FALSE
    /\ stack = <<>>
    /\ notes = <<>>
    /\ pc = "decode"

RawRead == DecodeRead

NextRaw == RawRead

SpecRaw == InitRaw /\ [][NextRaw]_vars

\* the pieces of a run that stand for a key
IsKeyPiece(p) == p.key # NoKey

\* the keys a run stands for, in order
RealKeys(ks) == KeysOf(SelectSeq(ks, IsKeyPiece))

IsPrefix(a, b) == Len(a) <= Len(b) /\ SubSeq(b, 1, Len(a)) = a

\* ------------------------------------------------------------------------
\* The decoder applied to keys delivered in two reads
\* ------------------------------------------------------------------------

SplitInputs ==
    {<<s>> : s \in CanonicalStrokes} \cup (SeqsUpTo(MaxAround + 1, SeqStrokes) \ {<<>>})

\* MainKb has acquired the terminal; the first part of the bytes of the
\* typed keys is waiting, cut at any byte
InitSplit ==
    /\ owner = MainKb
    /\ term0 \in InitialAttrs
    /\ settings = [k \in Keyboards |-> IF k = MainKb THEN <<term0>> ELSE NoAttr]
    /\ term = Setcbreak(term0)
    /\ typed \in SplitInputs
    /\ arrived \in 1..(Len(EncodeAll(typed)) - 1)
    /\ stdin = SubSeq(EncodeAll(typed), 1, arrived)
    /\ buffer = [k \in Keyboards |-> <<>>]
    /\ blocked = None
    /\ ret = Ret("arrive", None, FALSE, "ok", NoKey)
    /\ enqueued = [k \in Keyboards |-> <<>>]
    /\ returned = [k \in Keyboards |-> <<>>]
    /\ acquires = 1
    /\ restores = 0
    /\ eof = FALSE
    /\ stack = <<>>
    /\ notes = <<>>
    /\ pc = "first"

FirstRead ==
    /\ pc = "first"
    /\ ReadOp(MainKb)
    /\ pc' = "between"
    /\ UNCHANGED <<eof, stack, notes>>

\* the terminal delivers the remaining bytes
RestArrives ==
    /\ pc = "between"
    /\ stdin' = Drop(EncodeAll(typed), arrived)
    /\ arrived' = Len(EncodeAll(typed))
    /\ ret' = Ret("arrive", None, FALSE, "ok", NoKey)
    /\ pc' = "second"
    /\ UNCHANGED <<owner, settings, term, buffer, blocked, term0, typed, enqueued,
                   returned, acquires, restores, eof, stack, notes>>

SecondRead ==
    /\ pc = "second"
    /\ ReadOp(MainKb)
    /\ pc' = "both"
    /\ UNCHANGED <<eof, stack, notes>>

NextSplit == FirstRead \/ RestArrives \/ SecondRead

SpecSplit == InitSplit /\ [][NextSplit]_vars

\* the characters of a string as tokens
Literal(cs) == [i \in 1..Len(cs) |-> Ch(cs[i])]

\* ------------------------------------------------------------------------
\* GameLoop (engine/activity.py)
\* ------------------------------------------------------------------------

MaxDepth == 3

\* GameLoop.REGISTER after the registrations of the program: the registered
\* names, each with the hooks its class defines (the hooks are optional,
\* the base class Activity defines none)
REGISTER ==
    [menu  |-> {"on_leave", "on_exit", "on_return"},
     level |-> {}]

\* names passed to enter and switch; "credits" is not registered
Names == DOMAIN REGISTER \cup {"credits"}

\* keyword arguments of a constructor, values passed to exit, events and
\* screens
Kwargs == {"{}", "{'n': 1}"}
RetValue == {None, "won"}
RetValues == {"{}", "{'score': 1}"}
Events == {"key"}
Screens == {"screen"}

\* klass(**kwargs)
Activity(name, kwargs) == [name |-> name, kwargs |-> kwargs]

\* hasattr(activity, hook)
HasAttr(activity, hook) == hook \in REGISTER[activity.name]

\* self.stack[-1] and the stack without it
Top(s) == s[Len(s)]
Front(s) == SubSeq(s, 1, Len(s) - 1)

\* a method of an activity called with an argument
Call(hook, activity, arg) == [hook |-> hook, on |-> activity, arg |-> arg]

\* the call of a hook on an activity, if its class defines the hook
Notify(s, hook, arg) ==
    IF s # <<>> /\ HasAttr(Top(s), hook) THEN <<Call(hook, Top(s), arg)>> ELSE <<>>

LoopRet(op, name, outcome, retvalue, retvalues) ==
    [op |-> op, k |-> name, block |-> FALSE, outcome |-> outcome,
     val |-> [retvalue |-> retvalue, retvalues |-> retvalues]]

\* GameLoop.enter(name, **kwargs); ctor is what klass(**kwargs) does
enter(name, kwargs, ctor) ==
    IF name \notin DOMAIN REGISTER
    THEN /\ ret' = LoopRet("GameLoop.enter", name, "AssertionError", None, "{}")
         /\ notes' = <<>>
         /\ UNCHANGED stack
    ELSE /\ notes' = Notify(stack, "on_leave", None)
         /\ IF ctor # "ok"
            THEN /\ ret' = LoopRet("GameLoop.enter", name, ctor, None, "{}")
                 /\ UNCHANGED stack
            ELSE /\ Len(stack) < MaxDepth
                 /\ stack' = Append(stack, Activity(name, kwargs))
                 /\ ret' = LoopRet("GameLoop.enter", name, "ok", None, "{}")

\* the stack after switch has constructed the new activity, were it to
\* push it on top of the old one
SwitchPush_kept(s, activity) == Append(s, activity)

\* the stack after switch has constructed the new activity: the old top
\* was popped before
SwitchPush(s, activity) == Append(Front(s), activity)

\* GameLoop.switch(name, **kwargs)
switch(name, kwargs, ctor) ==
    IF name \notin DOMAIN REGISTER \/ stack = <<>>
    THEN /\ ret' = LoopRet("GameLoop.switch", name, "AssertionError", None, "{}")
         /\ notes' = <<>>
         /\ UNCHANGED stack
    ELSE /\ notes' = Notify(stack, "on_exit", None)
         /\ IF ctor # "ok"
            THEN /\ ret' = LoopRet("GameLoop.switch", name, ctor, None, "{}")
                 /\ stack' = Front(stack)
            ELSE /\ stack' = SwitchPush(stack, Activity(name, kwargs))
                 /\ ret' = LoopRet("GameLoop.switch", name, "ok", None, "{}")

\* the value exit hands to on_return
Returned(retvalue, retvalues) == IF retvalues # "{}" THEN retvalues ELSE retvalue

\* GameLoop.exit(retvalue, **retvalues)
exit(retvalue, retvalues) ==
    IF (retvalues # "{}" /\ retvalue # None) \/ stack = <<>>
    THEN /\ ret' = LoopRet("GameLoop.exit", None, "AssertionError", retvalue, retvalues)
         /\ notes' = <<>>
         /\ UNCHANGED stack
    ELSE /\ stack' = Front(stack)
         /\ notes' = Notify(stack, "on_exit", None)
                       \o Notify(Front(stack), "on_return", Returned(retvalue, retvalues))
         /\ ret' = LoopRet("GameLoop.exit", None, "ok", retvalue, retvalues)

\* GameLoop.interact(event)
interact(event) ==
    /\ notes' = IF stack # <<>> THEN <<Call("interact", Top(stack), event)>> ELSE <<>>
    /\ ret' = LoopRet("GameLoop.interact", None, "ok", None, "{}")
    /\ UNCHANGED stack

\* GameLoop.render(screen)
render(screen) ==
    /\ notes' = IF stack # <<>> THEN <<Call("render", Top(stack), screen)>> ELSE <<>>
    /\ ret' = LoopRet("GameLoop.render", None, "ok", None, "{}")
    /\ UNCHANGED stack

LoopFrame ==
    UNCHANGED <<owner, settings, term, stdin, buffer, blocked, pc, term0, typed,
                enqueued, returned, acquires, restores, arrived, eof>>

LoopEnter == (\E n \in Names, a \in Kwargs, c \in {"ok", "TypeError"} : enter(n, a, c)) /\ LoopFrame
LoopSwitch == (\E n \in Names, a \in Kwargs, c \in {"ok", "TypeError"} : switch(n, a, c)) /\ LoopFrame
LoopExit == (\E v \in RetValue, vs \in RetValues : exit(v, vs)) /\ LoopFrame
LoopInteract == (\E e \in Events : interact(e)) /\ LoopFrame
LoopRender == (\E sc \in Screens : render(sc)) /\ LoopFrame

\* GameLoop() with an empty stack
InitLoop == InitCommon /\ pc = "loop"

NextLoop == LoopEnter \/ LoopSwitch \/ LoopExit \/ LoopInteract \/ LoopRender

SpecLoop == InitLoop /\ [][NextLoop]_vars

\* ------------------------------------------------------------------------
\* Properties
\* ------------------------------------------------------------------------

\* the Keyboards that act as owner of the terminal: the one in the slot and
\* every one that holds a saved snapshot to restore
Owners == {k \in Keyboards : owner = k \/ settings[k] # NoAttr}

\* C1: at most one Keyboard is the owner of the terminal at any time, and an
\* __enter__ by any Keyboard (the owner included) while the slot is owned
\* fails with the assertion error and changes neither the slot nor any
\* snapshot.
C1_Exclusivity ==
    /\ [](Cardinality(Owners) <= 1)
    /\ [][\A k \in Keyboards :
            (ret'.op = "enter" /\ ret'.k = k /\ owner # None)
            => /\ ret'.outcome = "AssertionError"
               /\ owner' = owner
               /\ settings' = settings]_vars

\* C1 witness: the owner itself tried to acquire again and was refused
C1_Witness ==
    /\ ret.op = "enter"
    /\ ret.outcome = "AssertionError"
    /\ owner = ret.k
    /\ settings[owner] # NoAttr

\* C2: a successful __exit__ is made by the owner, writes exactly the
\* snapshot its __enter__ saved to the terminal and clears the slot, and
\* whenever the slot is unowned the terminal has the attributes it had
\* before the first acquire.
C2_RestoreExact ==
    /\ [](owner = None => term = term0)
    /\ [][\A k \in Keyboards :
            (ret'.op = "exit" /\ ret'.k = k /\ owner = k /\ settings[k] # NoAttr)
            => /\ ret'.outcome = "ok"
               /\ term' = settings[k][1]
               /\ owner' = None]_vars

\* C2 witness: the second acquisition of a behaviour has been released
C2_Witness ==
    /\ ret.op = "exit"
    /\ ret.outcome = "ok"
    /\ acquires = 2
    /\ restores = 2
    /\ owner = None
    /\ term = term0
    /\ term # Setcbreak(term0)

\* C3: in the with statement of __main__ the snapshot is not restored while
\* the body runs; once the statement has ended after a successful __enter__,
\* by break or by an exception of getch, the slot is unowned, the terminal
\* has its original attributes and exactly one restore has been made, also
\* after a further __exit__ on the same Keyboard.
C3_RestoredOnce ==
    /\ (pc \in {"getch", "leave", "unwind"}
        => owner = MainKb /\ restores = 0 /\ settings[MainKb] = <<term0>>)
    /\ (pc \in {"done", "raised"}
        => owner = None /\ term = term0 /\ restores = 1 /\ settings[MainKb] = NoAttr)

\* C3 witness: the body was left by an exception and __exit__ was then
\* called a second time
C3_Witness ==
    /\ pc = "raised"
    /\ ret.op = "exit"
    /\ ret.outcome = "AssertionError"
    /\ restores = 1
    /\ owner = None

\* C4 as claimed: when __enter__ fails because the slot is owned, terminal,
\* slot and snapshots are unchanged and the failing Keyboard holds no
\* snapshot.
C4_Original ==
    [][\A k \in Keyboards :
         (ret'.op = "enter" /\ ret'.k = k /\ owner # None)
         => /\ term' = term
            /\ owner' = owner
            /\ settings' = settings
            /\ stdin' = stdin
            /\ settings'[k] = NoAttr]_vars

\* C4: when __enter__ fails because the slot is owned, the terminal, its
\* pending input, the slot and every snapshot are unchanged, and the failing
\* Keyboard holds no snapshot unless it is the current owner itself.
C4_FailsClosed ==
    [][\A k \in Keyboards :
         (ret'.op = "enter" /\ ret'.k = k /\ owner # None)
         => /\ ret'.outcome = "AssertionError"
            /\ term' = term
            /\ owner' = owner
            /\ settings' = settings
            /\ stdin' = stdin
            /\ (k # owner => settings'[k] = NoAttr)]_vars

\* C4 witness: a second Keyboard was refused while the owner holds its
\* snapshot and input is pending
C4_Witness ==
    /\ ret.op = "enter"
    /\ ret.outcome = "AssertionError"
    /\ owner \notin {None, ret.k}
    /\ settings[owner] # NoAttr
    /\ settings[ret.k] = NoAttr
    /\ stdin # <<>>

\* C5: __exit__ on a Keyboard that is not the current owner (another one
\* owns the slot, or nobody does) fails with the assertion error and leaves
\* the terminal, the slot and every snapshot unchanged.
C5_NotOwner ==
    [][\A k \in Keyboards :
         (ret'.op = "exit" /\ ret'.k = k /\ owner # k)
         => /\ ret'.outcome = "AssertionError"
            /\ term' = term
            /\ owner' = owner
            /\ settings' = settings
            /\ restores' = restores]_vars

\* C5 witness: a Keyboard tried to release while another one owns the
\* terminal in cbreak mode
C5_Witness ==
    /\ ret.op = "exit"
    /\ ret.outcome = "AssertionError"
    /\ owner \notin {None, ret.k}
    /\ settings[owner] # NoAttr
    /\ term = Setcbreak(term0)

\* C6: for every Keyboard, the tokens getch has returned since the last
\* clear, followed by the tokens still in its buffer, are exactly the tokens
\* its reads have decoded since then, in decode order: none dropped,
\* duplicated or reordered.
C6_Fifo ==
    \A k \in Keyboards : returned[k] \o buffer[k] = enqueued[k]

\* C6 witness: two different tokens decoded by one read, the first returned
\* and the second still buffered
C6_Witness ==
    \E k \in Keyboards :
        /\ returned[k] = <<Ch(97)>>
        /\ buffer[k] = <<UP>>
        /\ ret.op = "getch"

\* getch returned None
ReturnedNone(r) == r.op = "getch" /\ r.outcome = "ok" /\ r.val = NoKey

\* C7: getch returns None exactly when it is called by the owner without
\* blocking while its buffer is empty and no input is ready; it then leaves
\* buffer and input untouched; a non-blocking getch never suspends.
C7_NoData ==
    [][\A k \in Keyboards :
         (ret'.op = "getch" /\ ret'.k = k)
         => /\ ReturnedNone(ret')
                <=> (owner = k /\ ~ret'.block /\ buffer[k] = <<>> /\ ~HasData)
            /\ ReturnedNone(ret') => (buffer' = buffer /\ stdin' = stdin /\ blocked' = None)
            /\ ~ret'.block => blocked' = None]_vars

\* C7 witness: a non-blocking getch returned None
C7_Witness ==
    /\ ReturnedNone(ret)
    /\ ~ret.block
    /\ owner = ret.k
    /\ buffer[ret.k] = <<>>
    /\ stdin = <<>>

\* C8 as claimed: after clear() by the owning Keyboard its token buffer is
\* empty and the raw input is drained, whatever bytes were pending.
C8_ClearDiscardsAll ==
    (ret.op = "clear" /\ owner = ret.k) => (buffer[ret.k] = <<>> /\ stdin = <<>>)

\* C9: every named key has an encoding, and a run that is exactly one listed
\* encoding of a named key decodes without error to exactly one token, that
\* key.
C9_RoundTrip ==
    /\ {s.key : s \in CanonicalStrokes} = NamedKeys
    /\ (pc = "decoded" /\ Len(typed) = 1 /\ typed[1] \in CanonicalStrokes)
       => (ret.outcome = "ok" /\ buffer[MainKb] = <<typed[1].key>>)

\* C9 witness: the five-byte encoding of F12 was decoded
C9_Witness ==
    /\ pc = "decoded"
    /\ typed = <<Stroke(<<27, 91, 50, 52, 126>>, F12)>>
    /\ buffer[MainKb] = <<F12>>

\* C10 as claimed: the concatenated encodings of any key sequence decode to
\* exactly those keys in order.
C10_Original ==
    pc = "decoded" => (ret.outcome = "ok" /\ buffer[MainKb] = KeysOf(typed))

\* no ESC key is directly followed by the character 'O' or '['
NoEscPrefix(ks) ==
    \A i \in 1..(Len(ks) - 1) :
        ks[i].key = ESC => ks[i + 1].key \notin {Ch(79), Ch(91)}

\* C10: the concatenated encodings of a key sequence in which no ESC key is
\* directly followed by the character 'O' or '[' decode to exactly those
\* keys in order.
C10_OrderPreserved ==
    (pc = "decoded" /\ NoEscPrefix(typed))
    => (ret.outcome = "ok" /\ buffer[MainKb] = KeysOf(typed))

\* C10 witness: ESC, a CSI key and a two-byte character decoded from one run
C10_Witness ==
    /\ pc = "decoded"
    /\ KeysOf(typed) = <<ESC, F5, Ch(233)>>
    /\ buffer[MainKb] = <<ESC, F5, Ch(233)>>

\* the run holds pieces of the family F among typed keys, and at least one
\* piece of F that stands for no key
RunOf(F) ==
    /\ \A i \in 1..Len(typed) : typed[i] \in RawKeys \cup F
    /\ \E i \in 1..Len(typed) : typed[i] \in F /\ typed[i].key = NoKey

\* C11 as claimed: a sequence with a recognized prefix and no table entry
\* yields no token and decoding resumes after it, so the buffer holds exactly
\* the keys typed before and after it, in order.
C11_UnknownRecovered ==
    (pc = "decoded" /\ RunOf(UnknownPieces)) => buffer[MainKb] = RealKeys(typed)

\* C12 as claimed: a recognized prefix with fewer bytes than its family
\* needs, at the end of the run, is refused by an explicit length check (the
\* assertion), not by an index error, and adds no token to the keys before it.
C12_MalformedChecked ==
    (pc = "decoded" /\ RunOf(TruncatedPieces) /\ typed[Len(typed)] \in TruncatedPieces)
    => (ret.outcome = "AssertionError" /\ buffer[MainKb] = RealKeys(typed))

\* cbreak mode is on in these attributes
IsCbreak(attrs) == ~attrs.echo /\ ~attrs.icanon

\* C13 as claimed: a Keyboard is in the owner slot exactly when it holds a
\* saved snapshot and the terminal is in cbreak mode; with the slot unowned
\* no Keyboard holds a snapshot and cbreak mode is off.
C13_OwnerConsistent ==
    /\ \A k \in Keyboards : owner = k <=> (settings[k] # NoAttr /\ IsCbreak(term))
    /\ owner = None => ((\A k \in Keyboards : settings[k] = NoAttr) /\ ~IsCbreak(term))

\* C14 as claimed: ESC [ 1 ; m t takes exactly six bytes and gives the key of
\* t in the CSI-letter table whatever the modifier m; for a terminator
\* outside the letter table no key is emitted for the sequence.
C14_ExtendedLetterOnly ==
    (pc = "decoded" /\ \E i \in 1..Len(typed) : typed[i] \in ExtendedPieces)
    => /\ IsPrefix(buffer[MainKb], RealKeys(typed))
       /\ (\A i \in 1..Len(typed) : IsKeyPiece(typed[i]))
          => (ret.outcome = "ok" /\ buffer[MainKb] = RealKeys(typed))

\* C15 as claimed: ESC [ digits [; digits] ~ gives the key of the digits
\* before the first ';' and takes exactly the bytes up to that '~'; bytes
\* that are not part of such a sequence are never taken into it, so a run
\* that decodes without error yields exactly the keys typed.
C15_NumericForm ==
    (pc = "decoded" /\ \E i \in 1..Len(typed) : typed[i] \in NumericPieces)
    => /\ IsPrefix(buffer[MainKb], RealKeys(typed))
       /\ ret.outcome = "ok" => buffer[MainKb] = RealKeys(typed)
       /\ (\A i \in 1..Len(typed) : IsKeyPiece(typed[i]))
          => (ret.outcome = "ok" /\ buffer[MainKb] = RealKeys(typed))

\* C16: the tokens a read enqueues are those its own bytes decode to,
\* whatever was read before; an ESC that ends the bytes of a read, after
\* whole keys, is enqueued as the ESC key; and when ESC ends the first read
\* and the rest of an escape sequence comes in the second, the buffer holds
\* ESC followed by the characters of the rest, not the key of the sequence.
C16_Stateless ==
    [][/\ (pc = "second" /\ pc' = "both")
          => /\ ret'.outcome = Decode(stdin).err
             /\ buffer'[MainKb] = buffer[MainKb] \o Decode(stdin).toks
       /\ \A j \in 0..Len(typed) :
            (/\ pc = "first" /\ pc' = "between"
             /\ NoEscPrefix(typed)
             /\ stdin = EncodeAll(SubSeq(typed, 1, j)) \o <<27>>)
            => /\ ret'.outcome = "ok"
               /\ buffer'[MainKb] = KeysOf(SubSeq(typed, 1, j)) \o <<ESC>>
       /\ (/\ pc = "second" /\ pc' = "both"
           /\ Len(typed) = 1
           /\ typed[1] \in CanonicalStrokes
           /\ stdin = Tail(typed[1].enc)
           /\ stdin # <<>>)
          => buffer'[MainKb] = <<ESC>> \o Literal(stdin)]_vars

\* C16 witness: UP arrived as ESC in one read and '[' 'A' in the next
C16_Witness ==
    /\ pc = "both"
    /\ typed = <<Stroke(<<27, 91, 65>>, UP)>>
    /\ buffer[MainKb] = <<ESC, Ch(91), Ch(65)>>
    /\ ret.outcome = "ok"

\* C17: a read made by getch or clear of the owner ends, also when the stream is ready
\* and os.read returns no bytes, and when it has ended every pending byte
\* has been read and the stream is not ready.
C17_ReadTerminates ==
    /\ []((ret.op \in {"getch", "clear"} /\ owner = ret.k) => ret.outcome # "spinning")
    /\ [][(ret'.op \in {"getch", "clear"} /\ owner = ret'.k /\ stdin' # stdin)
          => (stdin' = <<>> /\ ~HasData')]_vars

\* C18: getch or clear called on a Keyboard that is not the owner fails,
\* reads no raw input and leaves the token buffer of that Keyboard as it was.
C18_OwnerOnly ==
    [][(ret'.op \in {"getch", "clear"} /\ owner # ret'.k)
       => /\ ret'.outcome = "AssertionError"
          /\ stdin' = stdin
          /\ buffer' = buffer]_vars

\* C19: __enter__ and __exit__ leave every token buffer as it was, and a
\* getch of the owner whose buffer holds tokens returns the oldest of them
\* and reads nothing, so tokens left at release are returned after the next
\* acquisition before any key typed since.
C19_BufferKept ==
    [][/\ ret'.op \in {"enter", "exit"} => buffer' = buffer
       /\ (ret'.op = "getch" /\ owner = ret'.k /\ buffer[ret'.k] # <<>>)
          => /\ ret'.outcome = "ok"
             /\ ret'.val = Head(buffer[ret'.k])
             /\ buffer' = [buffer EXCEPT ![ret'.k] = Tail(@)]
             /\ stdin' = stdin]_vars

\* C19 witness: MainKb read 'a' 'a', returned the first, was released and
\* has been acquired again with the second still in its buffer
C19_Witness ==
    /\ ret = Ret("enter", MainKb, FALSE, "ok", NoKey)
    /\ acquires = 2
    /\ restores = 1
    /\ enqueued[MainKb] = <<Ch(97), Ch(97)>>
    /\ returned[MainKb] = <<Ch(97)>>
    /\ buffer[MainKb] = <<Ch(97)>>

\* C20: a successful enter of a registered name puts one activity of that
\* name on top of an unchanged stack, after on_leave of the previous top; a
\* successful switch replaces the top alone; a successful exit removes the
\* top alone and calls on_return of the new top with the value returned
\* (the keyword values when given, else the positional one); interact and
\* render call the top and nothing else and leave the stack alone; enter or
\* switch of an unregistered name, and switch or exit on an empty stack,
\* raise and leave the stack alone. A hook is called on the activities
\* whose class defines it.
C20_StackDiscipline ==
    [][/\ (ret'.op = "GameLoop.enter" /\ ret'.outcome = "ok")
          => /\ ret'.k \in DOMAIN REGISTER
             /\ Len(stack') = Len(stack) + 1
             /\ Front(stack') = stack
             /\ Top(stack').name = ret'.k
             /\ (stack # <<>> /\ HasAttr(Top(stack), "on_leave"))
                => notes' = <<Call("on_leave", Top(stack), None)>>
       /\ (ret'.op = "GameLoop.switch" /\ ret'.outcome = "ok")
          => /\ ret'.k \in DOMAIN REGISTER
             /\ Len(stack') = Len(stack)
             /\ Front(stack') = Front(stack)
             /\ Top(stack').name = ret'.k
       /\ (ret'.op = "GameLoop.exit" /\ ret'.outcome = "ok")
          => /\ stack # <<>>
             /\ stack' = Front(stack)
             /\ (stack' # <<>> /\ HasAttr(Top(stack'), "on_return"))
                => /\ notes' # <<>>
                   /\ Top(notes') =
                        Call("on_return", Top(stack'),
                             IF ret'.val.retvalues = "{}" THEN ret'.val.retvalue
                             ELSE ret'.val.retvalues)
       /\ ret'.op \in {"GameLoop.interact", "GameLoop.render"}
          => /\ stack' = stack
             /\ ret'.outcome = "ok"
             /\ Len(notes') = (IF stack = <<>> THEN 0 ELSE 1)
             /\ \A i \in DOMAIN notes' : notes'[i].on = Top(stack)
       /\ (ret'.op \in {"GameLoop.enter", "GameLoop.switch"} /\ ret'.k \notin DOMAIN REGISTER)
          => (ret'.outcome = "AssertionError" /\ stack' = stack /\ notes' = <<>>)
       /\ (ret'.op \in {"GameLoop.switch", "GameLoop.exit"} /\ stack = <<>>)
          => (ret'.outcome = "AssertionError" /\ stack' = stack /\ notes' = <<>>)]_vars

\* C20 witness: a level entered from a menu has exited with keyword values
\* and the menu, on top again, got them through on_return
C20_Witness ==
    /\ ret.op = "GameLoop.exit"
    /\ ret.outcome = "ok"
    /\ stack = <<Activity("menu", "{}")>>
    /\ notes = <<Call("on_return", Activity("menu", "{}"), "{'score': 1}")>>

====
